---- MODULE Spec2Model ----
(***************************************************************************)
(* Key-slot management of the PSA crypto layer                             *)
(* (library/psa_crypto_slot_management.c): the fixed table of key slots,   *)
(* the search by identifier, the allocator, the on-demand load of          *)
(* persistent keys and the open/close/purge life cycle.                    *)
(*                                                                         *)
(* The table is process-wide and every entry point is synchronous, so one  *)
(* action is one complete call.  The storage backend, the key-material     *)
(* copier and psa_wipe_key_slot live outside the two source files; they    *)
(* are modelled from the specification's description of them.              *)
(***************************************************************************)
EXTENDS Integers, Sequences, FiniteSets

(***************************************************************************)
(* Bounds of the model.                                                    *)
(***************************************************************************)
\* Number of key slots (PSA_KEY_SLOT_COUNT is 32 in the library).
MaxSlots == 2
\* Largest user key id (PSA_KEY_ID_USER_MAX is 0x3fffffff in the library).
MaxUserId == 1

(***************************************************************************)
(* Constants of the program.                                               *)
(***************************************************************************)
PSA_KEY_SLOT_COUNT == MaxSlots

PSA_KEY_ID_USER_MIN == 1
PSA_KEY_ID_USER_MAX == MaxUserId
\* The vendor range starts right above the user range and ends with the
\* volatile identifiers, one per slot.
PSA_KEY_ID_VENDOR_MIN == PSA_KEY_ID_USER_MAX + 1
PSA_KEY_ID_VENDOR_MAX == PSA_KEY_ID_VENDOR_MIN + PSA_KEY_SLOT_COUNT
PSA_KEY_ID_VOLATILE_MIN == PSA_KEY_ID_VENDOR_MAX - PSA_KEY_SLOT_COUNT + 1
PSA_KEY_ID_VOLATILE_MAX == PSA_KEY_ID_VENDOR_MAX

PSA_KEY_LIFETIME_VOLATILE == 0
PSA_KEY_LIFETIME_PERSISTENT == 1
\* A persistent key held by secure element number 1: location 1, persistence 1.
PSA_KEY_LIFETIME_SE == 257
\* sizeof( psa_se_key_data_storage_t ), in model units.
SE_KEY_DATA_STORAGE_SIZE == 2

PSA_SUCCESS == "PSA_SUCCESS"
PSA_ERROR_INVALID_HANDLE == "PSA_ERROR_INVALID_HANDLE"
PSA_ERROR_DOES_NOT_EXIST == "PSA_ERROR_DOES_NOT_EXIST"
PSA_ERROR_BAD_STATE == "PSA_ERROR_BAD_STATE"
PSA_ERROR_INSUFFICIENT_MEMORY == "PSA_ERROR_INSUFFICIENT_MEMORY"
PSA_ERROR_STORAGE_FAILURE == "PSA_ERROR_STORAGE_FAILURE"
PSA_ERROR_INVALID_ARGUMENT == "PSA_ERROR_INVALID_ARGUMENT"
PSA_ERROR_NOT_SUPPORTED == "PSA_ERROR_NOT_SUPPORTED"
PSA_ERROR_CORRUPTION_DETECTED == "PSA_ERROR_CORRUPTION_DETECTED"

(***************************************************************************)
(* Key identifiers: a key id plus an owner tag.                            *)
(***************************************************************************)
mbedtls_svc_key_id_make(owner, key_id) == [key_id |-> key_id, owner |-> owner]

MBEDTLS_SVC_KEY_ID_GET_KEY_ID(key) == key.key_id

MBEDTLS_SVC_KEY_ID_INIT == mbedtls_svc_key_id_make(0, 0)

PSA_KEY_HANDLE_INIT == MBEDTLS_SVC_KEY_ID_INIT

mbedtls_svc_key_id_equal(id1, id2) ==
    id1.key_id = id2.key_id /\ id1.owner = id2.owner

psa_key_handle_is_null(handle) == MBEDTLS_SVC_KEY_ID_GET_KEY_ID(handle) = 0

psa_key_id_is_volatile(key_id) ==
    PSA_KEY_ID_VOLATILE_MIN <= key_id /\ key_id <= PSA_KEY_ID_VOLATILE_MAX

psa_key_lifetime_is_external(lifetime) == (lifetime \div 256) # 0

\* The identifiers callers pass: the null id, every valid id and the first id
\* above the volatile range, under every owner.
KeyIds == 0 .. (PSA_KEY_ID_VOLATILE_MAX + 1)
\* Owner tags (mbedtls_key_owner_id_t): the calling partition and another one.
Owners == {0, 1}
Keys == { mbedtls_svc_key_id_make(o, k) : o \in Owners, k \in KeyIds }

(***************************************************************************)
(* Key slots.                                                              *)
(***************************************************************************)
\* A slot as program start and psa_wipe_key_slot leave it: all-bits-zero.
ZeroSlot ==
    [ id |-> MBEDTLS_SVC_KEY_ID_INIT,
      lifetime |-> 0,
      key |-> 0,
      se_slot_number |-> 0 ]

SlotIndices == 0 .. (PSA_KEY_SLOT_COUNT - 1)

\* The null slot pointer.
NULL == -1

psa_is_key_slot_occupied(slot) == slot.id # MBEDTLS_SVC_KEY_ID_INIT

\* psa_wipe_key_slot: releases the key material and zeroes the whole slot.
psa_wipe_key_slot(slots, idx) ==
    [ status |-> PSA_SUCCESS,
      key_slots |-> [slots EXCEPT ![idx] = ZeroSlot] ]

(***************************************************************************)
(* Identifier validation and search.                                       *)
(***************************************************************************)
\* The validation as it would be if the vendor test ran up to
\* PSA_KEY_ID_VENDOR_MAX, the volatile range included.
psa_validate_key_id_whole_vendor_range(key, vendor_ok, volatile_ok) ==
    LET key_id == MBEDTLS_SVC_KEY_ID_GET_KEY_ID(key) IN
    IF PSA_KEY_ID_USER_MIN <= key_id /\ key_id <= PSA_KEY_ID_USER_MAX
    THEN PSA_SUCCESS
    ELSE IF vendor_ok /\ PSA_KEY_ID_VENDOR_MIN <= key_id
                      /\ key_id <= PSA_KEY_ID_VENDOR_MAX
    THEN PSA_SUCCESS
    ELSE IF volatile_ok /\ PSA_KEY_ID_VOLATILE_MIN <= key_id
                        /\ key_id <= PSA_KEY_ID_VOLATILE_MAX
    THEN PSA_SUCCESS
    ELSE PSA_ERROR_INVALID_HANDLE

psa_validate_key_id(key, vendor_ok, volatile_ok) ==
    LET key_id == MBEDTLS_SVC_KEY_ID_GET_KEY_ID(key) IN
    IF PSA_KEY_ID_USER_MIN <= key_id /\ key_id <= PSA_KEY_ID_USER_MAX
    THEN PSA_SUCCESS
    ELSE IF vendor_ok /\ PSA_KEY_ID_VENDOR_MIN <= key_id
                      /\ key_id < PSA_KEY_ID_VOLATILE_MIN
    THEN PSA_SUCCESS
    ELSE IF volatile_ok /\ PSA_KEY_ID_VOLATILE_MIN <= key_id
                        /\ key_id <= PSA_KEY_ID_VOLATILE_MAX
    THEN PSA_SUCCESS
    ELSE PSA_ERROR_INVALID_HANDLE

\* The while loop of psa_search_key_in_slots: slot walks down from the end of
\* the table and stops at the first slot holding the key.
RECURSIVE search_scan(_, _, _)
search_scan(slots, key, slot) ==
    IF slot > 0
    THEN IF mbedtls_svc_key_id_equal(key, slots[slot - 1].id)
         THEN [status |-> PSA_SUCCESS, p_slot |-> slot - 1]
         ELSE search_scan(slots, key, slot - 1)
    ELSE [status |-> PSA_ERROR_DOES_NOT_EXIST, p_slot |-> NULL]

\* The search as it would be if it walked the whole table for every
\* identifier, those of the volatile range included.
psa_search_key_in_slots_scans_all(slots, key) ==
    LET status == psa_validate_key_id(key, TRUE, TRUE)
    IN  IF status # PSA_SUCCESS
        THEN [status |-> status, p_slot |-> NULL]
        ELSE search_scan(slots, key, PSA_KEY_SLOT_COUNT)

\* p_slot is the value left in *p_slot; NULL stands for "not written".
psa_search_key_in_slots(slots, key) ==
    LET key_id == MBEDTLS_SVC_KEY_ID_GET_KEY_ID(key)
        status == psa_validate_key_id(key, TRUE, TRUE)
    IN  IF status # PSA_SUCCESS
        THEN [status |-> status, p_slot |-> NULL]
        ELSE IF psa_key_id_is_volatile(key_id)
        THEN LET slot == key_id - PSA_KEY_ID_VOLATILE_MIN IN
             IF ~ mbedtls_svc_key_id_equal(key, slots[slot].id)
             THEN [status |-> PSA_ERROR_DOES_NOT_EXIST, p_slot |-> NULL]
             ELSE [status |-> PSA_SUCCESS, p_slot |-> slot]
        ELSE search_scan(slots, key, PSA_KEY_SLOT_COUNT)

(***************************************************************************)
(* The allocator.                                                          *)
(***************************************************************************)
\* The allocator's loop as it would be if it stopped one slot early
\* (slot_idx > 1): slot 0 is never handed out.
RECURSIVE empty_scan_stops_early(_, _)
empty_scan_stops_early(slots, slot_idx) ==
    IF slot_idx > 1
    THEN IF ~ psa_is_key_slot_occupied(slots[slot_idx - 1])
         THEN [ status |-> PSA_SUCCESS,
                volatile_key_id |-> PSA_KEY_ID_VOLATILE_MIN + slot_idx - 1,
                p_slot |-> slot_idx - 1 ]
         ELSE empty_scan_stops_early(slots, slot_idx - 1)
    ELSE [ status |-> PSA_ERROR_INSUFFICIENT_MEMORY,
           volatile_key_id |-> 0,
           p_slot |-> NULL ]

\* The for loop of psa_get_empty_key_slot, from slot_idx down to 1.
RECURSIVE empty_scan(_, _)
empty_scan(slots, slot_idx) ==
    IF slot_idx > 0
    THEN IF ~ psa_is_key_slot_occupied(slots[slot_idx - 1])
         THEN [ status |-> PSA_SUCCESS,
                volatile_key_id |-> PSA_KEY_ID_VOLATILE_MIN + slot_idx - 1,
                p_slot |-> slot_idx - 1 ]
         ELSE empty_scan(slots, slot_idx - 1)
    ELSE [ status |-> PSA_ERROR_INSUFFICIENT_MEMORY,
           volatile_key_id |-> 0,
           p_slot |-> NULL ]

\* The allocator as it would be with the identifier computed from slot_idx
\* without the "- 1".
psa_get_empty_key_slot_id_off_by_one(slots, initialized) ==
    IF ~ initialized
    THEN [ status |-> PSA_ERROR_BAD_STATE,
           volatile_key_id |-> 0,
           p_slot |-> NULL ]
    ELSE LET r == empty_scan(slots, PSA_KEY_SLOT_COUNT) IN
         IF r.status = PSA_SUCCESS
         THEN [r EXCEPT !.volatile_key_id = r.volatile_key_id + 1]
         ELSE r

\* The allocator as it would be if its loop started one slot below the end
\* of the table.
psa_get_empty_key_slot_skips_top(slots, initialized) ==
    IF ~ initialized
    THEN [ status |-> PSA_ERROR_BAD_STATE,
           volatile_key_id |-> 0,
           p_slot |-> NULL ]
    ELSE empty_scan(slots, PSA_KEY_SLOT_COUNT - 1)

\* The allocator as it would be if it handed out the lowest unoccupied slot.
psa_get_empty_key_slot_lowest_first(slots, initialized) ==
    LET free == { i \in SlotIndices : ~ psa_is_key_slot_occupied(slots[i]) } IN
    IF ~ initialized
    THEN [ status |-> PSA_ERROR_BAD_STATE,
           volatile_key_id |-> 0,
           p_slot |-> NULL ]
    ELSE IF free = {}
    THEN [ status |-> PSA_ERROR_INSUFFICIENT_MEMORY,
           volatile_key_id |-> 0,
           p_slot |-> NULL ]
    ELSE LET i == CHOOSE i \in free : \A j \in free : i <= j IN
         [ status |-> PSA_SUCCESS,
           volatile_key_id |-> PSA_KEY_ID_VOLATILE_MIN + i,
           p_slot |-> i ]

\* The allocator as it would be without the test of the initialized flag.
psa_get_empty_key_slot_no_init_check(slots, initialized) ==
    empty_scan(slots, PSA_KEY_SLOT_COUNT)

\* The table is only read.  On PSA_ERROR_BAD_STATE neither output is written.
psa_get_empty_key_slot(slots, initialized) ==
    IF ~ initialized
    THEN [ status |-> PSA_ERROR_BAD_STATE,
           volatile_key_id |-> 0,
           p_slot |-> NULL ]
    ELSE empty_scan(slots, PSA_KEY_SLOT_COUNT)

(***************************************************************************)
(* The storage backend and the key-material copier (collaborators).        *)
(***************************************************************************)
\* Longest key material the copier accepts for the key types of the model.
MAX_KEY_DATA_LENGTH == 2

\* What the backend holds under one identifier: nothing, a record it cannot
\* read back, or a record with the key's lifetime and its payload.
StorageAbsent == [kind |-> "absent", lifetime |-> 0, length |-> 0, data |-> 0]
StorageUnreadable == [kind |-> "unreadable", lifetime |-> 0, length |-> 0, data |-> 0]
StorageRecords(key) ==
    { [kind |-> "record", lifetime |-> l, length |-> n, data |-> key.key_id] :
        l \in {PSA_KEY_LIFETIME_PERSISTENT, PSA_KEY_LIFETIME_SE},
        n \in {SE_KEY_DATA_STORAGE_SIZE, SE_KEY_DATA_STORAGE_SIZE + 1} }
\* Under the user key the backend may hold anything; under the identifier of
\* the volatile range it holds nothing or a well-formed persistent key.
StorageEntries(key) ==
    IF psa_key_id_is_volatile(key.key_id)
    THEN { StorageAbsent,
           [ kind |-> "record", lifetime |-> PSA_KEY_LIFETIME_PERSISTENT,
             length |-> MAX_KEY_DATA_LENGTH, data |-> key.key_id ] }
    ELSE {StorageAbsent, StorageUnreadable} \cup StorageRecords(key)

\* The identifiers under which the backend may hold something: one user key
\* and one identifier of the volatile range.
StoredKeys ==
    { mbedtls_svc_key_id_make(0, PSA_KEY_ID_USER_MIN),
      mbedtls_svc_key_id_make(0, PSA_KEY_ID_VOLATILE_MIN) }

\* Every backend content: any entry under a stored key, nothing elsewhere.
StorageStubs ==
    LET choices == { g \in [StoredKeys -> UNION { StorageEntries(k) : k \in StoredKeys }] :
                        \A k \in StoredKeys : g[k] \in StorageEntries(k) }
    IN  { [k \in Keys |-> IF k \in StoredKeys THEN g[k] ELSE StorageAbsent] :
            g \in choices }

\* psa_load_persistent_key: reads the record stored under attr.id, fills the
\* attributes from it and hands out a buffer with the payload.
psa_load_persistent_key(attr, sto) ==
    LET entry == sto[attr.id] IN
    IF entry.kind = "absent"
    THEN [ status |-> PSA_ERROR_DOES_NOT_EXIST, attr |-> attr,
           key_data |-> 0, key_data_length |-> 0 ]
    ELSE IF entry.kind = "unreadable"
    THEN [ status |-> PSA_ERROR_STORAGE_FAILURE, attr |-> attr,
           key_data |-> 0, key_data_length |-> 0 ]
    ELSE [ status |-> PSA_SUCCESS,
           attr |-> [attr EXCEPT !.lifetime = entry.lifetime],
           key_data |-> entry.data, key_data_length |-> entry.length ]

\* psa_copy_key_material_into_slot: checks the size, then copies.
psa_copy_key_material_into_slot(slot, data, data_length) ==
    IF data_length > MAX_KEY_DATA_LENGTH
    THEN [status |-> PSA_ERROR_INVALID_ARGUMENT, slot |-> slot]
    ELSE [status |-> PSA_SUCCESS, slot |-> [slot EXCEPT !.key = data]]

(***************************************************************************)
(* The persistent key loader.                                              *)
(***************************************************************************)
\* The loader as it would be without the test of the record's size.
psa_load_persistent_key_into_slot_any_size(slot, sto) ==
    LET loaded == psa_load_persistent_key(slot, sto)
        slot1 == loaded.attr
    IN  IF loaded.status # PSA_SUCCESS
        THEN [ status |-> loaded.status, slot |-> slot1,
               calls |-> <<"load", "free">> ]
        ELSE IF psa_key_lifetime_is_external(slot1.lifetime)
        THEN [ status |-> PSA_SUCCESS,
               slot |-> [slot1 EXCEPT !.se_slot_number = loaded.key_data],
               calls |-> <<"load", "free">> ]
        ELSE LET copied == psa_copy_key_material_into_slot(
                               slot1, loaded.key_data, loaded.key_data_length)
             IN  [ status |-> copied.status, slot |-> copied.slot,
                   calls |-> <<"load", "copy", "free">> ]

\* The loader as it would be if it returned at once when the backend cannot
\* read the key, instead of leaving through the exit label.
psa_load_persistent_key_into_slot_returns_early(slot, sto) ==
    LET loaded == psa_load_persistent_key(slot, sto)
        slot1 == loaded.attr
    IN  IF loaded.status # PSA_SUCCESS
        THEN [ status |-> loaded.status, slot |-> slot1,
               calls |-> <<"load">> ]
        ELSE IF psa_key_lifetime_is_external(slot1.lifetime)
        THEN IF loaded.key_data_length # SE_KEY_DATA_STORAGE_SIZE
             THEN [ status |-> PSA_ERROR_STORAGE_FAILURE, slot |-> slot1,
                    calls |-> <<"load", "free">> ]
             ELSE [ status |-> PSA_SUCCESS,
                    slot |-> [slot1 EXCEPT !.se_slot_number = loaded.key_data],
                    calls |-> <<"load", "free">> ]
        ELSE LET copied == psa_copy_key_material_into_slot(
                               slot1, loaded.key_data, loaded.key_data_length)
             IN  [ status |-> copied.status, slot |-> copied.slot,
                   calls |-> <<"load", "copy", "free">> ]

\* The loader as it would be if it left the secure element's slot number
\* out of the slot.
psa_load_persistent_key_into_slot_drops_slot_number(slot, sto) ==
    LET loaded == psa_load_persistent_key(slot, sto)
        slot1 == loaded.attr
    IN  IF loaded.status # PSA_SUCCESS
        THEN [ status |-> loaded.status, slot |-> slot1,
               calls |-> <<"load", "free">> ]
        ELSE IF psa_key_lifetime_is_external(slot1.lifetime)
        THEN IF loaded.key_data_length # SE_KEY_DATA_STORAGE_SIZE
             THEN [ status |-> PSA_ERROR_STORAGE_FAILURE, slot |-> slot1,
                    calls |-> <<"load", "free">> ]
             ELSE [ status |-> PSA_SUCCESS, slot |-> slot1,
                    calls |-> <<"load", "free">> ]
        ELSE LET copied == psa_copy_key_material_into_slot(
                               slot1, loaded.key_data, loaded.key_data_length)
             IN  [ status |-> copied.status, slot |-> copied.slot,
                   calls |-> <<"load", "copy", "free">> ]

\* slot is the slot's record; the result carries the slot as the loader leaves
\* it and the collaborator calls it made, in order.
psa_load_persistent_key_into_slot(slot, sto) ==
    LET loaded == psa_load_persistent_key(slot, sto)
        slot1 == loaded.attr
    IN  IF loaded.status # PSA_SUCCESS
        THEN [ status |-> loaded.status, slot |-> slot1,
               calls |-> <<"load", "free">> ]
        ELSE IF psa_key_lifetime_is_external(slot1.lifetime)
        THEN IF loaded.key_data_length # SE_KEY_DATA_STORAGE_SIZE
             THEN [ status |-> PSA_ERROR_STORAGE_FAILURE, slot |-> slot1,
                    calls |-> <<"load", "free">> ]
             ELSE [ status |-> PSA_SUCCESS,
                    slot |-> [slot1 EXCEPT !.se_slot_number = loaded.key_data],
                    calls |-> <<"load", "free">> ]
        ELSE LET copied == psa_copy_key_material_into_slot(
                               slot1, loaded.key_data, loaded.key_data_length)
             IN  [ status |-> copied.status, slot |-> copied.slot,
                   calls |-> <<"load", "copy", "free">> ]

(***************************************************************************)
(* Looking a key up, loading it on a miss.                                 *)
(***************************************************************************)
\* psa_get_key_slot as it would be if it reported a full table as a key that
\* does not exist.
psa_get_key_slot_hides_full_table(slots, initialized, sto, storage_c, key) ==
    IF ~ initialized
    THEN [ status |-> PSA_ERROR_BAD_STATE, key_slots |-> slots,
           p_slot |-> NULL, calls |-> << >> ]
    ELSE
    LET found == psa_search_key_in_slots(slots, key) IN
    IF found.status # PSA_ERROR_DOES_NOT_EXIST
    THEN [ status |-> found.status, key_slots |-> slots,
           p_slot |-> found.p_slot, calls |-> <<"search">> ]
    ELSE IF ~ storage_c
    THEN [ status |-> PSA_ERROR_DOES_NOT_EXIST, key_slots |-> slots,
           p_slot |-> NULL, calls |-> <<"search">> ]
    ELSE
    LET empty == psa_get_empty_key_slot(slots, initialized) IN
    IF empty.status # PSA_SUCCESS
    THEN [ status |-> PSA_ERROR_DOES_NOT_EXIST, key_slots |-> slots,
           p_slot |-> empty.p_slot, calls |-> <<"search", "get_empty">> ]
    ELSE
    LET idx == empty.p_slot
        provisional == [slots[idx] EXCEPT
                            !.lifetime = PSA_KEY_LIFETIME_PERSISTENT,
                            !.id = key]
        load == psa_load_persistent_key_into_slot(provisional, sto)
        slots1 == [slots EXCEPT ![idx] = load.slot]
    IN  IF load.status # PSA_SUCCESS
        THEN [ status |-> load.status,
               key_slots |-> psa_wipe_key_slot(slots1, idx).key_slots,
               p_slot |-> idx,
               calls |-> <<"search", "get_empty">> \o load.calls \o <<"wipe">> ]
        ELSE [ status |-> PSA_SUCCESS, key_slots |-> slots1, p_slot |-> idx,
               calls |-> <<"search", "get_empty">> \o load.calls ]

\* psa_get_key_slot as it would be if it looked the key up before it tested
\* the initialized flag.
psa_get_key_slot_searches_first(slots, initialized, sto, storage_c, key) ==
    LET found == psa_search_key_in_slots(slots, key) IN
    IF found.status # PSA_ERROR_DOES_NOT_EXIST
    THEN [ status |-> found.status, key_slots |-> slots,
           p_slot |-> found.p_slot, calls |-> <<"search">> ]
    ELSE [ status |-> IF initialized THEN PSA_ERROR_DOES_NOT_EXIST
                      ELSE PSA_ERROR_BAD_STATE,
           key_slots |-> slots, p_slot |-> NULL, calls |-> <<"search">> ]

\* psa_get_key_slot as it would be without the wipe after a failed load.
psa_get_key_slot_no_wipe(slots, initialized, sto, storage_c, key) ==
    IF ~ initialized
    THEN [ status |-> PSA_ERROR_BAD_STATE, key_slots |-> slots,
           p_slot |-> NULL, calls |-> << >> ]
    ELSE
    LET found == psa_search_key_in_slots(slots, key) IN
    IF found.status # PSA_ERROR_DOES_NOT_EXIST
    THEN [ status |-> found.status, key_slots |-> slots,
           p_slot |-> found.p_slot, calls |-> <<"search">> ]
    ELSE IF ~ storage_c
    THEN [ status |-> PSA_ERROR_DOES_NOT_EXIST, key_slots |-> slots,
           p_slot |-> NULL, calls |-> <<"search">> ]
    ELSE
    LET empty == psa_get_empty_key_slot(slots, initialized) IN
    IF empty.status # PSA_SUCCESS
    THEN [ status |-> empty.status, key_slots |-> slots,
           p_slot |-> empty.p_slot, calls |-> <<"search", "get_empty">> ]
    ELSE
    LET idx == empty.p_slot
        provisional == [slots[idx] EXCEPT
                            !.lifetime = PSA_KEY_LIFETIME_PERSISTENT,
                            !.id = key]
        load == psa_load_persistent_key_into_slot(provisional, sto)
    IN  [ status |-> load.status,
          key_slots |-> [slots EXCEPT ![idx] = load.slot],
          p_slot |-> idx,
          calls |-> <<"search", "get_empty">> \o load.calls ]

\* storage_c: whether the build has MBEDTLS_PSA_CRYPTO_STORAGE_C.
psa_get_key_slot(slots, initialized, sto, storage_c, key) ==
    IF ~ initialized
    THEN [ status |-> PSA_ERROR_BAD_STATE, key_slots |-> slots,
           p_slot |-> NULL, calls |-> << >> ]
    ELSE
    LET found == psa_search_key_in_slots(slots, key) IN
    IF found.status # PSA_ERROR_DOES_NOT_EXIST
    THEN [ status |-> found.status, key_slots |-> slots,
           p_slot |-> found.p_slot, calls |-> <<"search">> ]
    ELSE IF ~ storage_c
    THEN [ status |-> PSA_ERROR_DOES_NOT_EXIST, key_slots |-> slots,
           p_slot |-> NULL, calls |-> <<"search">> ]
    ELSE
    LET empty == psa_get_empty_key_slot(slots, initialized) IN
    IF empty.status # PSA_SUCCESS
    THEN [ status |-> empty.status, key_slots |-> slots,
           p_slot |-> empty.p_slot, calls |-> <<"search", "get_empty">> ]
    ELSE
    LET idx == empty.p_slot
        provisional == [slots[idx] EXCEPT
                            !.lifetime = PSA_KEY_LIFETIME_PERSISTENT,
                            !.id = key]
        load == psa_load_persistent_key_into_slot(provisional, sto)
        slots1 == [slots EXCEPT ![idx] = load.slot]
    IN  IF load.status # PSA_SUCCESS
        THEN [ status |-> load.status,
               key_slots |-> psa_wipe_key_slot(slots1, idx).key_slots,
               p_slot |-> idx,
               calls |-> <<"search", "get_empty">> \o load.calls \o <<"wipe">> ]
        ELSE [ status |-> PSA_SUCCESS, key_slots |-> slots1, p_slot |-> idx,
               calls |-> <<"search", "get_empty">> \o load.calls ]

\* psa_open_key as it would be if it looked the key up in every build.
psa_open_key_in_every_build(slots, initialized, sto, storage_c, key) ==
    LET got == psa_get_key_slot(slots, initialized, sto, storage_c, key) IN
    IF got.status # PSA_SUCCESS
    THEN [ status |-> got.status, key_slots |-> got.key_slots,
           handle |-> PSA_KEY_HANDLE_INIT, calls |-> got.calls ]
    ELSE [ status |-> PSA_SUCCESS, key_slots |-> got.key_slots,
           handle |-> key, calls |-> got.calls ]

psa_open_key(slots, initialized, sto, storage_c, key) ==
    IF ~ storage_c
    THEN [ status |-> PSA_ERROR_NOT_SUPPORTED, key_slots |-> slots,
           handle |-> PSA_KEY_HANDLE_INIT, calls |-> << >> ]
    ELSE
    LET got == psa_get_key_slot(slots, initialized, sto, storage_c, key) IN
    IF got.status # PSA_SUCCESS
    THEN [ status |-> got.status, key_slots |-> got.key_slots,
           handle |-> PSA_KEY_HANDLE_INIT, calls |-> got.calls ]
    ELSE [ status |-> PSA_SUCCESS, key_slots |-> got.key_slots,
           handle |-> key, calls |-> got.calls ]

\* psa_close_key as it would be if, like psa_purge_key, it told lifetimes
\* apart: only a volatile key's slot is wiped.
psa_close_key_wipes_volatile_only(slots, handle) ==
    IF psa_key_handle_is_null(handle)
    THEN [ status |-> PSA_SUCCESS, key_slots |-> slots, p_slot |-> NULL,
           calls |-> << >> ]
    ELSE
    LET found == psa_search_key_in_slots(slots, handle) IN
    IF found.status # PSA_SUCCESS
    THEN [ status |-> found.status, key_slots |-> slots, p_slot |-> NULL,
           calls |-> <<"search">> ]
    ELSE IF slots[found.p_slot].lifetime # PSA_KEY_LIFETIME_VOLATILE
    THEN [ status |-> PSA_SUCCESS, key_slots |-> slots,
           p_slot |-> found.p_slot, calls |-> <<"search">> ]
    ELSE LET wiped == psa_wipe_key_slot(slots, found.p_slot) IN
         [ status |-> wiped.status, key_slots |-> wiped.key_slots,
           p_slot |-> found.p_slot, calls |-> <<"search", "wipe">> ]

\* psa_close_key as it would be without the test for the null handle.
psa_close_key_no_null_check(slots, handle) ==
    LET found == psa_search_key_in_slots(slots, handle) IN
    IF found.status # PSA_SUCCESS
    THEN [ status |-> found.status, key_slots |-> slots, p_slot |-> NULL,
           calls |-> <<"search">> ]
    ELSE LET wiped == psa_wipe_key_slot(slots, found.p_slot) IN
         [ status |-> wiped.status, key_slots |-> wiped.key_slots,
           p_slot |-> found.p_slot, calls |-> <<"search", "wipe">> ]

\* p_slot is the local variable slot: the slot the handle resolved to, or NULL.
psa_close_key(slots, handle) ==
    IF psa_key_handle_is_null(handle)
    THEN [ status |-> PSA_SUCCESS, key_slots |-> slots, p_slot |-> NULL,
           calls |-> << >> ]
    ELSE
    LET found == psa_search_key_in_slots(slots, handle) IN
    IF found.status # PSA_SUCCESS
    THEN [ status |-> found.status, key_slots |-> slots, p_slot |-> NULL,
           calls |-> <<"search">> ]
    ELSE LET wiped == psa_wipe_key_slot(slots, found.p_slot) IN
         [ status |-> wiped.status, key_slots |-> wiped.key_slots,
           p_slot |-> found.p_slot, calls |-> <<"search", "wipe">> ]

\* psa_purge_key as it would be if it wiped only the slots whose lifetime is
\* exactly PSA_KEY_LIFETIME_PERSISTENT.
psa_purge_key_wipes_persistent_only(slots, key) ==
    LET found == psa_search_key_in_slots(slots, key) IN
    IF found.status # PSA_SUCCESS
    THEN [ status |-> found.status, key_slots |-> slots, p_slot |-> NULL,
           calls |-> <<"search">> ]
    ELSE IF slots[found.p_slot].lifetime # PSA_KEY_LIFETIME_PERSISTENT
    THEN [ status |-> PSA_SUCCESS, key_slots |-> slots,
           p_slot |-> found.p_slot, calls |-> <<"search">> ]
    ELSE LET wiped == psa_wipe_key_slot(slots, found.p_slot) IN
         [ status |-> wiped.status, key_slots |-> wiped.key_slots,
           p_slot |-> found.p_slot, calls |-> <<"search", "wipe">> ]

psa_purge_key(slots, key) ==
    LET found == psa_search_key_in_slots(slots, key) IN
    IF found.status # PSA_SUCCESS
    THEN [ status |-> found.status, key_slots |-> slots, p_slot |-> NULL,
           calls |-> <<"search">> ]
    ELSE IF slots[found.p_slot].lifetime = PSA_KEY_LIFETIME_VOLATILE
    THEN [ status |-> PSA_SUCCESS, key_slots |-> slots,
           p_slot |-> found.p_slot, calls |-> <<"search">> ]
    ELSE LET wiped == psa_wipe_key_slot(slots, found.p_slot) IN
         [ status |-> wiped.status, key_slots |-> wiped.key_slots,
           p_slot |-> found.p_slot, calls |-> <<"search", "wipe">> ]

\* The loop of psa_wipe_all_key_slots as it would be if it stopped one slot
\* before the end of the table.
RECURSIVE wipe_all_scan_stops_early(_, _)
wipe_all_scan_stops_early(slots, slot_idx) ==
    IF slot_idx < PSA_KEY_SLOT_COUNT - 1
    THEN wipe_all_scan_stops_early(psa_wipe_key_slot(slots, slot_idx).key_slots,
                                   slot_idx + 1)
    ELSE slots

\* psa_wipe_all_key_slots: slot_idx runs from 0 to the end of the table.
RECURSIVE wipe_all_scan(_, _)
wipe_all_scan(slots, slot_idx) ==
    IF slot_idx < PSA_KEY_SLOT_COUNT
    THEN wipe_all_scan(psa_wipe_key_slot(slots, slot_idx).key_slots, slot_idx + 1)
    ELSE slots

(***************************************************************************)
(* Statistics.                                                             *)
(***************************************************************************)
\* mbedtls_psa_stats_t after memset( stats, 0, ... ): the fields the pass
\* over the table writes.
ZeroStats ==
    [ empty_slots |-> 0, volatile_slots |-> 0, persistent_slots |-> 0,
      external_slots |-> 0, max_open_internal_key_id |-> 0,
      max_open_external_key_id |-> 0 ]

\* One iteration of the loop of mbedtls_psa_get_stats, on one slot.
stats_count(stats, slot) ==
    LET id == MBEDTLS_SVC_KEY_ID_GET_KEY_ID(slot.id) IN
    IF ~ psa_is_key_slot_occupied(slot)
    THEN [stats EXCEPT !.empty_slots = @ + 1]
    ELSE IF slot.lifetime = PSA_KEY_LIFETIME_VOLATILE
    THEN [stats EXCEPT !.volatile_slots = @ + 1]
    ELSE IF slot.lifetime = PSA_KEY_LIFETIME_PERSISTENT
    THEN [stats EXCEPT !.persistent_slots = @ + 1,
                       !.max_open_internal_key_id = IF id > @ THEN id ELSE @]
    ELSE [stats EXCEPT !.external_slots = @ + 1,
                       !.max_open_external_key_id = IF id > @ THEN id ELSE @]

\* The loop as it would be if it stored each identifier it meets as the
\* maximum, without comparing.
RECURSIVE stats_scan_keeps_last_id(_, _, _)
stats_scan_keeps_last_id(slots, slot_idx, stats) ==
    IF slot_idx < PSA_KEY_SLOT_COUNT
    THEN LET slot == slots[slot_idx]
             id == MBEDTLS_SVC_KEY_ID_GET_KEY_ID(slot.id)
             counted == stats_count(stats, slot)
         IN  stats_scan_keeps_last_id(
                 slots, slot_idx + 1,
                 IF ~ psa_is_key_slot_occupied(slot)
                      \/ slot.lifetime = PSA_KEY_LIFETIME_VOLATILE
                 THEN counted
                 ELSE IF slot.lifetime = PSA_KEY_LIFETIME_PERSISTENT
                 THEN [counted EXCEPT !.max_open_internal_key_id = id]
                 ELSE [counted EXCEPT !.max_open_external_key_id = id])
    ELSE stats

\* The for loop of mbedtls_psa_get_stats, slot_idx running up the table.
RECURSIVE stats_scan(_, _, _)
stats_scan(slots, slot_idx, stats) ==
    IF slot_idx < PSA_KEY_SLOT_COUNT
    THEN stats_scan(slots, slot_idx + 1, stats_count(stats, slots[slot_idx]))
    ELSE stats

mbedtls_psa_get_stats(slots) == stats_scan(slots, 0, ZeroStats)

(***************************************************************************)
(* State.                                                                  *)
(***************************************************************************)
VARIABLES
    key_slots,               \* global_data.key_slots
    key_slots_initialized,   \* global_data.key_slots_initialized
    storage,                 \* what the storage backend holds, per identifier
    storage_c,               \* the build has MBEDTLS_PSA_CRYPTO_STORAGE_C
    last,                    \* the last call: its arguments, status and outputs
    run                      \* the current run of consecutive allocator calls

vars == <<key_slots, key_slots_initialized, storage, storage_c, last, run>>

NoCall ==
    [ op |-> "none", status |-> PSA_SUCCESS,
      p_slot |-> NULL, volatile_key_id |-> 0, handle |-> PSA_KEY_HANDLE_INIT,
      calls |-> << >>, stored |-> FALSE, lifetime |-> 0, reopen |-> 0,
      occupied |-> 0, vendor_ok |-> FALSE, volatile_ok |-> FALSE,
      stats |-> ZeroStats ]

\* How far the last calls are into opening a key of the persistent range,
\* evicting it with a close or a purge, and opening it again: 1 after the
\* eviction that follows the successful open, 2 after the second open.
EvictsJustOpened(handle, r) ==
    /\ r.status = PSA_SUCCESS
    /\ r.calls = <<"search", "wipe">>
    /\ last.op = "open_key"
    /\ last.status = PSA_SUCCESS
    /\ last.handle = handle
    /\ ~ psa_key_id_is_volatile(MBEDTLS_SVC_KEY_ID_GET_KEY_ID(handle))

OpensJustEvicted(key) ==
    /\ last.op \in {"close_key", "purge_key"}
    /\ last.reopen = 1
    /\ last.handle = key

\* The lifetime of the slot a close or purge resolved its argument to, as it
\* was when the call was made.
LifetimeAt(slots, p_slot) == IF p_slot = NULL THEN 0 ELSE slots[p_slot].lifetime

\* No allocator call has been made since the last call of another kind.
NoRun == [results |-> << >>, free |-> 0, stored |-> TRUE]

Unoccupied(slots) == { i \in SlotIndices : ~ psa_is_key_slot_occupied(slots[i]) }

Init ==
    /\ key_slots = [i \in SlotIndices |-> ZeroSlot]
    /\ key_slots_initialized = FALSE
    /\ storage \in StorageStubs
    /\ storage_c = TRUE
    /\ last = NoCall
    /\ run = NoRun

\* The backend of a build without MBEDTLS_PSA_CRYPTO_STORAGE_C: nothing is
\* ever read from it.
NoStorage == [k \in Keys |-> StorageAbsent]

\* The program in either build, with or without persistent storage.
InitAnyBuild ==
    /\ key_slots = [i \in SlotIndices |-> ZeroSlot]
    /\ key_slots_initialized = FALSE
    /\ storage_c \in BOOLEAN
    /\ storage \in (IF storage_c THEN StorageStubs ELSE {NoStorage})
    /\ last = NoCall
    /\ run = NoRun

(***************************************************************************)
(* What a call made in the current state returns and leaves behind.        *)
(***************************************************************************)
GetEmptyKeySlotCall == psa_get_empty_key_slot(key_slots, key_slots_initialized)

GetKeySlotCall(key) ==
    psa_get_key_slot(key_slots, key_slots_initialized, storage, storage_c, key)

OpenKeyCall(key) ==
    psa_open_key(key_slots, key_slots_initialized, storage, storage_c, key)

CloseKeyCall(handle) == psa_close_key(key_slots, handle)

PurgeKeyCall(key) == psa_purge_key(key_slots, key)

(***************************************************************************)
(* One action per entry point.                                             *)
(***************************************************************************)
psa_initialize_key_slots ==
    /\ key_slots_initialized' = TRUE
    /\ last' = [NoCall EXCEPT !.op = "initialize"]
    /\ run' = NoRun
    /\ UNCHANGED <<key_slots, storage, storage_c>>

psa_wipe_all_key_slots ==
    /\ key_slots' = wipe_all_scan(key_slots, 0)
    /\ key_slots_initialized' = FALSE
    /\ last' = [NoCall EXCEPT
                   !.op = "wipe_all",
                   !.occupied = Cardinality(SlotIndices \ Unoccupied(key_slots))]
    /\ run' = NoRun
    /\ UNCHANGED <<storage, storage_c>>

\* The allocator hands out the identifier of the volatile key that the call
\* before it closed.
HandsOutClosed(r) ==
    /\ last.op = "close_key"
    /\ last.status = PSA_SUCCESS
    /\ last.p_slot # NULL
    /\ last.lifetime = PSA_KEY_LIFETIME_VOLATILE
    /\ r.status = PSA_SUCCESS
    /\ r.volatile_key_id = MBEDTLS_SVC_KEY_ID_GET_KEY_ID(last.handle)

\* A run ends after PSA_KEY_SLOT_COUNT + 1 calls, and once the caller has left
\* a slot it was given unused; the next call starts a new run.
GetEmptyKeySlot ==
    LET r == GetEmptyKeySlotCall
        fresh == \/ run.results = << >>
                 \/ Len(run.results) > PSA_KEY_SLOT_COUNT
                 \/ ~ run.stored
        unstored == last.op = "get_empty_slot" /\ last.status = PSA_SUCCESS
                        /\ ~ last.stored
    IN  /\ last' = [NoCall EXCEPT !.op = "get_empty_slot",
                                  !.status = r.status,
                                  !.p_slot = r.p_slot,
                                  !.volatile_key_id = r.volatile_key_id,
                                  !.handle = IF HandsOutClosed(r)
                                             THEN last.handle
                                             ELSE PSA_KEY_HANDLE_INIT]
        /\ run' = IF r.status = PSA_ERROR_BAD_STATE THEN NoRun
                  ELSE IF fresh
                  THEN [ results |-> <<r>>,
                         free |-> Cardinality(Unoccupied(key_slots)),
                         stored |-> TRUE ]
                  ELSE [ results |-> Append(run.results, r),
                         free |-> run.free,
                         stored |-> run.stored /\ ~ unstored ]
        /\ UNCHANGED <<key_slots, key_slots_initialized, storage, storage_c>>

\* The caller of psa_get_empty_key_slot creates a volatile key in the slot it
\* was given, under the identifier it was given and an owner of its choice.
CallerStore(owner) ==
    /\ last.op = "get_empty_slot"
    /\ last.status = PSA_SUCCESS
    /\ ~ last.stored
    /\ key_slots' = [key_slots EXCEPT ![last.p_slot] =
                        [ id |-> mbedtls_svc_key_id_make(owner, last.volatile_key_id),
                          lifetime |-> PSA_KEY_LIFETIME_VOLATILE,
                          key |-> last.volatile_key_id,
                          se_slot_number |-> 0 ]]
    /\ last' = [last EXCEPT !.stored = TRUE]
    /\ UNCHANGED <<key_slots_initialized, storage, storage_c, run>>

GetKeySlot(key) ==
    LET r == GetKeySlotCall(key)
    IN  /\ key_slots' = r.key_slots
        /\ last' = [NoCall EXCEPT !.op = "get_key_slot",
                                  !.status = r.status, !.p_slot = r.p_slot,
                                  !.calls = r.calls]
        /\ run' = NoRun
        /\ UNCHANGED <<key_slots_initialized, storage, storage_c>>

OpenKey(key) ==
    LET r == OpenKeyCall(key)
    IN  /\ key_slots' = r.key_slots
        /\ last' = [NoCall EXCEPT !.op = "open_key",
                                  !.status = r.status, !.handle = r.handle,
                                  !.calls = r.calls,
                                  !.reopen = IF OpensJustEvicted(key)
                                             THEN 2 ELSE 0]
        /\ run' = NoRun
        /\ UNCHANGED <<key_slots_initialized, storage, storage_c>>

CloseKey(handle) ==
    LET r == CloseKeyCall(handle)
    IN  /\ key_slots' = r.key_slots
        /\ last' = [NoCall EXCEPT !.op = "close_key",
                                  !.status = r.status, !.calls = r.calls,
                                  !.p_slot = r.p_slot,
                                  !.lifetime = LifetimeAt(key_slots, r.p_slot),
                                  !.handle = IF r.p_slot = NULL
                                             THEN PSA_KEY_HANDLE_INIT
                                             ELSE handle,
                                  !.reopen = IF EvictsJustOpened(handle, r)
                                             THEN 1 ELSE 0]
        /\ run' = NoRun
        /\ UNCHANGED <<key_slots_initialized, storage, storage_c>>

PurgeKey(key) ==
    LET r == PurgeKeyCall(key)
    IN  /\ key_slots' = r.key_slots
        /\ last' = [NoCall EXCEPT !.op = "purge_key",
                                  !.status = r.status, !.calls = r.calls,
                                  !.p_slot = r.p_slot,
                                  !.lifetime = LifetimeAt(key_slots, r.p_slot),
                                  !.handle = IF r.p_slot = NULL
                                             THEN PSA_KEY_HANDLE_INIT
                                             ELSE key,
                                  !.reopen = IF EvictsJustOpened(key, r)
                                             THEN 1 ELSE 0]
        /\ run' = NoRun
        /\ UNCHANGED <<key_slots_initialized, storage, storage_c>>

\* The two functions that only read: the validation of an identifier, which
\* reads its arguments, and the statistics, which read the table.
ValidateKeyId(key, vendor_ok, volatile_ok) ==
    /\ last' = [NoCall EXCEPT
                   !.op = "validate_key_id",
                   !.status = psa_validate_key_id(key, vendor_ok, volatile_ok),
                   !.handle = key,
                   !.vendor_ok = vendor_ok,
                   !.volatile_ok = volatile_ok]
    /\ UNCHANGED <<key_slots, key_slots_initialized, storage, storage_c, run>>

GetStats ==
    /\ last' = [NoCall EXCEPT !.op = "get_stats",
                              !.stats = mbedtls_psa_get_stats(key_slots)]
    /\ UNCHANGED <<key_slots, key_slots_initialized, storage, storage_c, run>>

Next ==
    \/ psa_initialize_key_slots
    \/ psa_wipe_all_key_slots
    \/ GetEmptyKeySlot
    \/ \E owner \in Owners : CallerStore(owner)
    \/ \E key \in Keys : GetKeySlot(key)
    \/ \E key \in Keys : OpenKey(key)
    \/ \E handle \in Keys : CloseKey(handle)
    \/ \E key \in Keys : PurgeKey(key)

Spec == Init /\ [][Next]_vars

SpecAnyBuild == InitAnyBuild /\ [][Next]_vars

(***************************************************************************)
(* The reading functions on their own, from every table of resident keys.  *)
(***************************************************************************)
\* Identifiers a persistent or secure-element key can be resident under.
PersistentIds == PSA_KEY_ID_USER_MIN .. (PSA_KEY_ID_VOLATILE_MIN - 1)

\* What slot i can hold: nothing, the volatile key of its index, a persistent
\* key with its material, or a secure-element key with its slot number.
SlotContents(i) ==
    {ZeroSlot}
    \cup { [ id |-> mbedtls_svc_key_id_make(0, PSA_KEY_ID_VOLATILE_MIN + i),
             lifetime |-> PSA_KEY_LIFETIME_VOLATILE,
             key |-> PSA_KEY_ID_VOLATILE_MIN + i, se_slot_number |-> 0 ] }
    \cup { [ id |-> mbedtls_svc_key_id_make(0, k),
             lifetime |-> PSA_KEY_LIFETIME_PERSISTENT,
             key |-> k, se_slot_number |-> 0 ] : k \in PersistentIds }
    \cup { [ id |-> mbedtls_svc_key_id_make(0, k),
             lifetime |-> PSA_KEY_LIFETIME_SE,
             key |-> 0, se_slot_number |-> k ] :
               k \in PSA_KEY_ID_USER_MIN .. PSA_KEY_ID_USER_MAX }

\* The tables in which no identifier is resident twice.
Tables ==
    { t \in [SlotIndices -> UNION { SlotContents(i) : i \in SlotIndices }] :
        /\ \A i \in SlotIndices : t[i] \in SlotContents(i)
        /\ \A i, j \in SlotIndices :
             (i # j /\ psa_is_key_slot_occupied(t[i])) => t[i].id # t[j].id }

InitReadOnly ==
    /\ key_slots \in Tables
    /\ key_slots_initialized = TRUE
    /\ storage = NoStorage
    /\ storage_c = TRUE
    /\ last = NoCall
    /\ run = NoRun

NextReadOnly ==
    \/ \E key \in Keys : \E vendor_ok, volatile_ok \in BOOLEAN :
          ValidateKeyId(key, vendor_ok, volatile_ok)
    \/ GetStats

SpecReadOnly == InitReadOnly /\ [][NextReadOnly]_vars

(***************************************************************************)
(* Properties.                                                             *)
(***************************************************************************)
Called(call, name) == \E i \in 1 .. Len(call.calls) : call.calls[i] = name

Occupied(slots) == { i \in SlotIndices : psa_is_key_slot_occupied(slots[i]) }

Resident(key) == psa_search_key_in_slots(key_slots, key).status = PSA_SUCCESS

\* psa_get_key_slot(key) misses in the table and gets a slot from the allocator.
MissesAndAllocates(key) ==
    /\ key_slots_initialized
    /\ storage_c
    /\ psa_search_key_in_slots(key_slots, key).status = PSA_ERROR_DOES_NOT_EXIST
    /\ psa_get_empty_key_slot(key_slots, TRUE).status = PSA_SUCCESS

\* What the loader returns for the slot psa_get_key_slot prepares for key.
LoaderStatus(key) ==
    psa_load_persistent_key_into_slot(
        [ key_slots[psa_get_empty_key_slot(key_slots, TRUE).p_slot] EXCEPT
            !.lifetime = PSA_KEY_LIFETIME_PERSISTENT, !.id = key ],
        storage).status

LoaderErrors ==
    { PSA_ERROR_DOES_NOT_EXIST, PSA_ERROR_STORAGE_FAILURE,
      PSA_ERROR_INVALID_ARGUMENT }

\* C1: in every reachable state and for every key, when psa_get_key_slot(key)
\* misses in the table, gets a slot from the allocator and the load from
\* storage fails, the call returns the loader's error (not found, storage
\* failure or invalid argument), leaves every slot of the table as it was,
\* and a search for key right after it returns PSA_ERROR_DOES_NOT_EXIST.
C1_FailedLoadLeavesTableAsBefore ==
    \A key \in Keys :
        (MissesAndAllocates(key) /\ LoaderStatus(key) # PSA_SUCCESS)
        => LET r == GetKeySlotCall(key) IN
           /\ r.status = LoaderStatus(key)
           /\ r.status \in LoaderErrors
           /\ r.key_slots = key_slots
           /\ psa_search_key_in_slots(r.key_slots, key).status
                  = PSA_ERROR_DOES_NOT_EXIST

\* A load has just failed with a storage failure, another key being resident.
C1_Witness ==
    /\ last.op = "get_key_slot"
    /\ Called(last, "load")
    /\ Called(last, "wipe")
    /\ last.status = PSA_ERROR_STORAGE_FAILURE
    /\ Occupied(key_slots) # {}

\* C2: on an initialized table, psa_get_key_slot(v) for an identifier v of the
\* volatile range that is not resident at its slot returns
\* PSA_ERROR_DOES_NOT_EXIST and calls neither the allocator nor the loader.
C2_VolatileMissNeverLoads ==
    [][ last'.op = "get_key_slot" => \A key \in Keys :
          ( /\ key_slots_initialized
            /\ psa_key_id_is_volatile(MBEDTLS_SVC_KEY_ID_GET_KEY_ID(key))
            /\ psa_search_key_in_slots(key_slots, key).status
                   = PSA_ERROR_DOES_NOT_EXIST
            /\ GetKeySlot(key) )
          => /\ last'.status = PSA_ERROR_DOES_NOT_EXIST
             /\ ~ Called(last', "get_empty")
             /\ ~ Called(last', "load") ]_vars

\* C3: no two occupied slots hold the same identifier (key id and owner).
C3_NoIdentifierInTwoSlots ==
    \A i, j \in Occupied(key_slots) :
        i # j => ~ mbedtls_svc_key_id_equal(key_slots[i].id, key_slots[j].id)

\* C4: every occupied slot whose identifier lies in the volatile range sits at
\* index (key id - PSA_KEY_ID_VOLATILE_MIN).
C4_VolatileIdentifierAtItsIndex ==
    \A i \in Occupied(key_slots) :
        psa_key_id_is_volatile(MBEDTLS_SVC_KEY_ID_GET_KEY_ID(key_slots[i].id))
            => i = MBEDTLS_SVC_KEY_ID_GET_KEY_ID(key_slots[i].id)
                       - PSA_KEY_ID_VOLATILE_MIN

\* C5: in every reachable state, when psa_close_key(h) returns PSA_SUCCESS for
\* a non-null handle h whose key is resident, the slot h resolved to is empty
\* afterwards (identifier, lifetime and material all zero), every other slot
\* is as before, and a search for h returns PSA_ERROR_DOES_NOT_EXIST,
\* whatever the lifetime of the slot was.
C5_CloseEmptiesTheSlot ==
    \A h \in Keys :
        LET r == CloseKeyCall(h)
            slot == psa_search_key_in_slots(key_slots, h).p_slot
        IN  ( /\ ~ psa_key_handle_is_null(h)
              /\ Resident(h)
              /\ r.status = PSA_SUCCESS )
            => /\ r.key_slots[slot] = ZeroSlot
               /\ \A i \in SlotIndices \ {slot} : r.key_slots[i] = key_slots[i]
               /\ psa_search_key_in_slots(r.key_slots, h).status
                      = PSA_ERROR_DOES_NOT_EXIST

\* A secure-element key has just been closed while another key stays resident.
C5_Witness ==
    /\ last.op = "close_key"
    /\ last.status = PSA_SUCCESS
    /\ Called(last, "wipe")
    /\ psa_key_lifetime_is_external(last.lifetime)
    /\ key_slots[last.p_slot] = ZeroSlot
    /\ Occupied(key_slots) # {}

\* C6 as stated: psa_close_key on a handle that was just closed returns
\* PSA_SUCCESS and leaves every slot unchanged.
C6_ClosedHandleClosesAgain ==
    [][ ( /\ last.op = "close_key"
          /\ last.status = PSA_SUCCESS
          /\ Called(last, "wipe")
          /\ CloseKey(last.handle) )
        => /\ last'.status = PSA_SUCCESS
           /\ key_slots' = key_slots ]_vars

\* C6: psa_close_key on a null handle returns PSA_SUCCESS; on a non-null
\* handle whose key is not resident (one already closed among them) it returns
\* the error of the search, PSA_ERROR_DOES_NOT_EXIST for a valid identifier and
\* PSA_ERROR_INVALID_HANDLE otherwise; both leave every slot unchanged.  So
\* right after a handle was closed, closing it again returns
\* PSA_ERROR_DOES_NOT_EXIST.
C6_CloseOfNullOrAbsent ==
    /\ \A h \in Keys :
         LET r == CloseKeyCall(h) IN
         /\ psa_key_handle_is_null(h)
                => r.status = PSA_SUCCESS /\ r.key_slots = key_slots
         /\ (~ psa_key_handle_is_null(h) /\ ~ Resident(h))
                => /\ r.key_slots = key_slots
                   /\ r.status = IF psa_validate_key_id(h, TRUE, TRUE) = PSA_SUCCESS
                                 THEN PSA_ERROR_DOES_NOT_EXIST
                                 ELSE PSA_ERROR_INVALID_HANDLE
    /\ (last.op = "close_key" /\ last.status = PSA_SUCCESS /\ Called(last, "wipe"))
           => /\ CloseKeyCall(last.handle).status = PSA_ERROR_DOES_NOT_EXIST
              /\ CloseKeyCall(last.handle).key_slots = key_slots

\* A close has just found no key under a valid handle, a key being resident.
C6_Witness ==
    /\ last.op = "close_key"
    /\ last.status = PSA_ERROR_DOES_NOT_EXIST
    /\ last.calls = <<"search">>
    /\ Occupied(key_slots) # {}

\* The current run of allocator calls on a table that had run.free unoccupied
\* slots at its start: the first run.free calls succeed with slots and
\* identifiers that differ from each other, the next one fails
\* PSA_ERROR_INSUFFICIENT_MEMORY.
RunAsClaimed ==
    LET n == Len(run.results)
        k == run.free
    IN  /\ \A i \in 1 .. n : i <= k => run.results[i].status = PSA_SUCCESS
        /\ \A i, j \in 1 .. n :
             (i < j /\ j <= k)
             => /\ run.results[i].p_slot # run.results[j].p_slot
                /\ run.results[i].volatile_key_id # run.results[j].volatile_key_id
        /\ n > k => run.results[k + 1].status = PSA_ERROR_INSUFFICIENT_MEMORY

\* C7 as stated: psa_get_empty_key_slot reserves the slot it returns, so every
\* run of consecutive calls is as claimed, whatever the caller does with the
\* slots.
C7_AllocatorReserves == RunAsClaimed

\* C7: psa_get_empty_key_slot only finds a slot.  When the caller stores the
\* returned identifier in the returned slot after each successful call, k
\* consecutive calls on an initialized table with k unoccupied slots succeed
\* with k distinct slots and k distinct volatile identifiers, and call k + 1
\* fails PSA_ERROR_INSUFFICIENT_MEMORY.
C7_AllocatorWithCallerStore == run.stored => RunAsClaimed

\* Two slots were free; two calls, each followed by the caller's store, took
\* them and the third call has failed.
C7_Witness ==
    /\ run.stored
    /\ run.free >= 2
    /\ Len(run.results) = run.free + 1
    /\ last.op = "get_empty_slot"
    /\ last.status = PSA_ERROR_INSUFFICIENT_MEMORY

\* C8: on an initialized table psa_get_empty_key_slot returns PSA_SUCCESS
\* exactly when a slot is unoccupied; then the slot it returns is unoccupied
\* and the identifier it returns is PSA_KEY_ID_VOLATILE_MIN plus the slot's
\* index, an identifier of the volatile range.  When every slot is occupied it
\* returns PSA_ERROR_INSUFFICIENT_MEMORY and a null slot.  The table is as
\* before: the outputs of the call just made are those of the table as it is.
C8_AllocatorResult ==
    /\ key_slots_initialized =>
         LET r == GetEmptyKeySlotCall IN
         /\ r.status = PSA_SUCCESS <=> Unoccupied(key_slots) # {}
         /\ r.status = PSA_SUCCESS =>
              /\ r.p_slot \in Unoccupied(key_slots)
              /\ r.volatile_key_id = PSA_KEY_ID_VOLATILE_MIN + r.p_slot
              /\ psa_key_id_is_volatile(r.volatile_key_id)
         /\ r.status # PSA_SUCCESS =>
              /\ r.status = PSA_ERROR_INSUFFICIENT_MEMORY
              /\ r.p_slot = NULL
              /\ Occupied(key_slots) = SlotIndices
    /\ (last.op = "get_empty_slot" /\ ~ last.stored) =>
         /\ last.status = GetEmptyKeySlotCall.status
         /\ last.p_slot = GetEmptyKeySlotCall.p_slot
         /\ last.volatile_key_id = GetEmptyKeySlotCall.volatile_key_id

\* The allocator has just passed over an occupied slot and returned a lower one.
C8_Witness ==
    /\ last.op = "get_empty_slot"
    /\ last.status = PSA_SUCCESS
    /\ ~ last.stored
    /\ last.p_slot < PSA_KEY_SLOT_COUNT - 1
    /\ last.p_slot \in Unoccupied(key_slots)

\* C9: while the table is not initialized (from program start to the first
\* psa_initialize_key_slots, and from psa_wipe_all_key_slots to the next one)
\* psa_get_empty_key_slot and psa_get_key_slot fail PSA_ERROR_BAD_STATE for
\* every argument and leave the table unchanged; once it is initialized
\* neither returns PSA_ERROR_BAD_STATE.
C9_BadStateIffNotInitialized ==
    /\ (last.op \in {"none", "wipe_all"}) => ~ key_slots_initialized
    /\ (last.op = "initialize") => key_slots_initialized
    /\ ~ key_slots_initialized =>
         /\ GetEmptyKeySlotCall.status = PSA_ERROR_BAD_STATE
         /\ \A key \in Keys :
              /\ GetKeySlotCall(key).status = PSA_ERROR_BAD_STATE
              /\ GetKeySlotCall(key).key_slots = key_slots
         /\ (last.op \in {"get_empty_slot", "get_key_slot"})
                => last.status = PSA_ERROR_BAD_STATE
    /\ key_slots_initialized =>
         /\ GetEmptyKeySlotCall.status # PSA_ERROR_BAD_STATE
         /\ \A key \in Keys : GetKeySlotCall(key).status # PSA_ERROR_BAD_STATE
         /\ (last.op \in {"get_empty_slot", "get_key_slot"})
                => last.status # PSA_ERROR_BAD_STATE

\* psa_get_key_slot has just failed PSA_ERROR_BAD_STATE.
C9_Witness ==
    /\ last.op = "get_key_slot"
    /\ last.status = PSA_ERROR_BAD_STATE
    /\ ~ key_slots_initialized

\* C10: psa_purge_key on a resident identifier of the volatile range returns
\* PSA_SUCCESS and leaves every slot, that key's slot included, unchanged.
C10_PurgeKeepsVolatileIdentifier ==
    [][ last'.op = "purge_key" => \A key \in Keys :
          ( /\ psa_key_id_is_volatile(MBEDTLS_SVC_KEY_ID_GET_KEY_ID(key))
            /\ Resident(key)
            /\ PurgeKey(key) )
          => /\ last'.status = PSA_SUCCESS
             /\ key_slots' = key_slots ]_vars

\* C11: in every reachable state and for every resident key whose slot has a
\* lifetime other than volatile (persistent or secure element),
\* psa_purge_key(key) returns PSA_SUCCESS, leaves the key's slot empty and
\* every other slot as it was, a search for key then returns
\* PSA_ERROR_DOES_NOT_EXIST, and the only calls made are the search and the
\* wipe of the slot: the storage backend is not called and what it holds is
\* what it held.
C11_PurgeEvictsWithoutStorage ==
    \A key \in Keys :
        LET r == PurgeKeyCall(key)
            slot == psa_search_key_in_slots(key_slots, key).p_slot
        IN  ( /\ Resident(key)
              /\ key_slots[slot].lifetime # PSA_KEY_LIFETIME_VOLATILE )
            => /\ r.status = PSA_SUCCESS
               /\ r.p_slot = slot
               /\ r.key_slots[slot] = ZeroSlot
               /\ \A i \in SlotIndices \ {slot} : r.key_slots[i] = key_slots[i]
               /\ psa_search_key_in_slots(r.key_slots, key).status
                      = PSA_ERROR_DOES_NOT_EXIST
               /\ r.calls = <<"search", "wipe">>

\* A secure-element key has just been purged while another key stays resident
\* and the backend still holds the purged key's record.
C11_Witness ==
    /\ last.op = "purge_key"
    /\ last.status = PSA_SUCCESS
    /\ Called(last, "wipe")
    /\ psa_key_lifetime_is_external(last.lifetime)
    /\ key_slots[last.p_slot] = ZeroSlot
    /\ Occupied(key_slots) # {}
    /\ \E key \in StoredKeys :
         /\ storage[key].kind = "record"
         /\ psa_key_lifetime_is_external(storage[key].lifetime)

\* What a slot holds of the record the backend keeps under key: the
\* attributes, and the key material or, for a secure-element key, the slot
\* number in the device.
SlotFromStorage(key) ==
    LET entry == storage[key] IN
    [ id |-> key,
      lifetime |-> entry.lifetime,
      key |-> IF psa_key_lifetime_is_external(entry.lifetime)
              THEN 0 ELSE entry.data,
      se_slot_number |-> IF psa_key_lifetime_is_external(entry.lifetime)
                         THEN entry.data ELSE 0 ]

SlotOf(slots, key) == slots[psa_search_key_in_slots(slots, key).p_slot]

\* psa_open_key(p), then psa_close_key(p), then psa_open_key(p), from the
\* table slots; and the same with psa_purge_key for the eviction.
OpenCloseOpen(p) ==
    LET o1 == OpenKeyCall(p)
        e == psa_close_key(o1.key_slots, p)
    IN  [ first |-> o1, evict |-> e,
          second |-> psa_open_key(e.key_slots, key_slots_initialized,
                                  storage, storage_c, p) ]

OpenPurgeOpen(p) ==
    LET o1 == OpenKeyCall(p)
        e == psa_purge_key(o1.key_slots, p)
    IN  [ first |-> o1, evict |-> e,
          second |-> psa_open_key(e.key_slots, key_slots_initialized,
                                  storage, storage_c, p) ]

ReopenReproduces(p, c) ==
    c.first.status = PSA_SUCCESS
    => /\ storage[p].kind = "record"
       /\ c.evict.status = PSA_SUCCESS
       /\ psa_search_key_in_slots(c.evict.key_slots, p).status
              = PSA_ERROR_DOES_NOT_EXIST
       /\ c.second.status = PSA_SUCCESS
       /\ c.second.handle = p
       /\ SlotOf(c.second.key_slots, p) = SlotOf(c.first.key_slots, p)
       /\ SlotOf(c.second.key_slots, p) = SlotFromStorage(p)

\* C12: the backend's contents never change.  In every reachable state and
\* for every identifier p outside the volatile range that psa_open_key opens
\* successfully, closing (or purging) p and opening it again succeeds with
\* handle p, and the slot of p after the second open holds what it held after
\* the first one, which is what the backend holds under p: identifier,
\* lifetime and key material (the slot number for a secure-element key).
\* Whenever the calls made were that open, eviction and open, the last one
\* returned PSA_SUCCESS and p's slot holds the backend's record.
C12_ReopenReproducesTheKey ==
    /\ \A p \in Keys :
         ~ psa_key_id_is_volatile(MBEDTLS_SVC_KEY_ID_GET_KEY_ID(p))
         => /\ ReopenReproduces(p, OpenCloseOpen(p))
            /\ ReopenReproduces(p, OpenPurgeOpen(p))
    /\ (last.op = "open_key" /\ last.reopen = 2)
         => /\ last.status = PSA_SUCCESS
            /\ ~ psa_key_handle_is_null(last.handle)
            /\ Resident(last.handle)
            /\ SlotOf(key_slots, last.handle) = SlotFromStorage(last.handle)

\* A key has been opened, evicted and opened again, the second open loading
\* its material from the backend while another key is resident.
C12_Witness ==
    /\ last.op = "open_key"
    /\ last.reopen = 2
    /\ last.status = PSA_SUCCESS
    /\ last.calls = <<"search", "get_empty", "load", "copy", "free">>
    /\ SlotOf(key_slots, last.handle) = SlotFromStorage(last.handle)
    /\ SlotOf(key_slots, last.handle).key # 0
    /\ Cardinality(Occupied(key_slots)) >= 2

\* A volatile key of the given identifier, as its creator stores it.
VolatileSlot(key) ==
    [ id |-> key, lifetime |-> PSA_KEY_LIFETIME_VOLATILE,
      key |-> MBEDTLS_SVC_KEY_ID_GET_KEY_ID(key), se_slot_number |-> 0 ]

\* C13: in every reachable table and for every identifier v of the volatile
\* range, psa_search_key_in_slots(v) returns PSA_SUCCESS exactly when the slot
\* at index (key id of v - PSA_KEY_ID_VOLATILE_MIN) holds an identifier equal
\* to v, owner included, and then returns that slot; otherwise it returns
\* PSA_ERROR_DOES_NOT_EXIST.  The result does not depend on any other slot:
\* it is the same with another slot emptied or made to hold v.
C13_VolatileSearchIsDirect ==
    \A v \in Keys :
        psa_key_id_is_volatile(MBEDTLS_SVC_KEY_ID_GET_KEY_ID(v))
        => LET idx == MBEDTLS_SVC_KEY_ID_GET_KEY_ID(v) - PSA_KEY_ID_VOLATILE_MIN
               r == psa_search_key_in_slots(key_slots, v)
           IN  /\ r.status = PSA_SUCCESS
                      <=> (key_slots[idx].id.key_id = v.key_id
                             /\ key_slots[idx].id.owner = v.owner)
               /\ r.status = PSA_SUCCESS => r.p_slot = idx
               /\ r.status # PSA_SUCCESS
                      => r.status = PSA_ERROR_DOES_NOT_EXIST /\ r.p_slot = NULL
               /\ \A i \in SlotIndices \ {idx} :
                    \A other \in {ZeroSlot, VolatileSlot(v)} :
                        psa_search_key_in_slots(
                            [key_slots EXCEPT ![i] = other], v) = r

\* A purge has just found nothing under its key while an identifier of the
\* volatile range sits in a slot other than the one of its index, where the
\* search does not find it.
C13_Witness ==
    /\ last.op = "purge_key"
    /\ last.status = PSA_ERROR_DOES_NOT_EXIST
    /\ \E i \in Occupied(key_slots) :
         /\ psa_key_id_is_volatile(MBEDTLS_SVC_KEY_ID_GET_KEY_ID(key_slots[i].id))
         /\ i # MBEDTLS_SVC_KEY_ID_GET_KEY_ID(key_slots[i].id)
                    - PSA_KEY_ID_VOLATILE_MIN
         /\ psa_search_key_in_slots(key_slots, key_slots[i].id).status
                = PSA_ERROR_DOES_NOT_EXIST

\* C14: right after psa_wipe_all_key_slots every slot is empty and the
\* initialized flag is clear.  Whenever every slot is empty, the search,
\* psa_close_key and psa_purge_key return PSA_ERROR_DOES_NOT_EXIST for every
\* valid identifier, of the volatile range or not, and leave the table empty;
\* psa_get_key_slot leaves it empty too unless it loads the key and returns
\* PSA_SUCCESS, which it does not while the flag is clear.
C14_WipeAllEmptiesTheTable ==
    /\ last.op = "wipe_all"
         => /\ \A i \in SlotIndices : key_slots[i] = ZeroSlot
            /\ ~ key_slots_initialized
    /\ (\A i \in SlotIndices : key_slots[i] = ZeroSlot)
         => \A key \in Keys :
              /\ psa_validate_key_id(key, TRUE, TRUE) = PSA_SUCCESS
                   => /\ psa_search_key_in_slots(key_slots, key).status
                             = PSA_ERROR_DOES_NOT_EXIST
                      /\ CloseKeyCall(key).status = PSA_ERROR_DOES_NOT_EXIST
                      /\ PurgeKeyCall(key).status = PSA_ERROR_DOES_NOT_EXIST
              /\ CloseKeyCall(key).key_slots = key_slots
              /\ PurgeKeyCall(key).key_slots = key_slots
              /\ GetKeySlotCall(key).status # PSA_SUCCESS
                   => GetKeySlotCall(key).key_slots = key_slots
              /\ ~ key_slots_initialized
                   => GetKeySlotCall(key).status = PSA_ERROR_BAD_STATE

\* psa_wipe_all_key_slots has just emptied a table whose slots were all
\* occupied.
C14_Witness ==
    /\ last.op = "wipe_all"
    /\ last.occupied = PSA_KEY_SLOT_COUNT
    /\ \A i \in SlotIndices : key_slots[i] = ZeroSlot
    /\ ~ key_slots_initialized

\* C15: in either build, in every reachable state and for every key,
\* psa_open_key(key) sets the handle to key when it returns PSA_SUCCESS and to
\* the null handle when it returns an error.  In the build without persistent
\* storage it returns PSA_ERROR_NOT_SUPPORTED for every key, resident or not,
\* with the null handle, calls nothing and leaves the table unchanged.
C15_OpenKeyHandle ==
    /\ \A key \in Keys :
         LET r == OpenKeyCall(key) IN
         /\ r.status = PSA_SUCCESS => r.handle = key
         /\ r.status # PSA_SUCCESS => r.handle = PSA_KEY_HANDLE_INIT
         /\ ~ storage_c
              => /\ r.status = PSA_ERROR_NOT_SUPPORTED
                 /\ r.handle = PSA_KEY_HANDLE_INIT
                 /\ r.key_slots = key_slots
                 /\ r.calls = << >>
    /\ last.op = "open_key"
         => /\ last.status = PSA_SUCCESS
                 => /\ ~ psa_key_handle_is_null(last.handle)
                    /\ \E i \in SlotIndices : key_slots[i].id = last.handle
            /\ last.status # PSA_SUCCESS => last.handle = PSA_KEY_HANDLE_INIT
            /\ ~ storage_c => last.status = PSA_ERROR_NOT_SUPPORTED

\* In the build without storage psa_open_key has just failed
\* PSA_ERROR_NOT_SUPPORTED on an initialized table whose slots all hold keys.
C15_Witness ==
    /\ ~ storage_c
    /\ key_slots_initialized
    /\ last.op = "open_key"
    /\ last.status = PSA_ERROR_NOT_SUPPORTED
    /\ last.handle = PSA_KEY_HANDLE_INIT
    /\ Occupied(key_slots) = SlotIndices

\* The identifiers psa_validate_key_id is to accept under the two flags.
UserRange == PSA_KEY_ID_USER_MIN .. PSA_KEY_ID_USER_MAX
VendorRangeBelowVolatile == PSA_KEY_ID_VENDOR_MIN .. (PSA_KEY_ID_VOLATILE_MIN - 1)
VolatileRange == PSA_KEY_ID_VOLATILE_MIN .. PSA_KEY_ID_VOLATILE_MAX

Accepted(vendor_ok, volatile_ok) ==
    UserRange
    \cup (IF vendor_ok THEN VendorRangeBelowVolatile ELSE {})
    \cup (IF volatile_ok THEN VolatileRange ELSE {})

\* C16: for every key and both flags, psa_validate_key_id returns PSA_SUCCESS
\* when the key id is in the user range, or vendor_ok holds and it is in the
\* vendor range below PSA_KEY_ID_VOLATILE_MIN, or volatile_ok holds and it is
\* in the volatile range, and PSA_ERROR_INVALID_HANDLE in every other case,
\* whatever the owner.  Key id 0 and the key ids above PSA_KEY_ID_VOLATILE_MAX
\* fail under all four flag combinations; a key id of the volatile range fails
\* without volatile_ok even with vendor_ok.  The call just made returned so.
C16_ValidateKeyId ==
    /\ \A key \in Keys : \A vendor_ok, volatile_ok \in BOOLEAN :
         LET key_id == MBEDTLS_SVC_KEY_ID_GET_KEY_ID(key)
             status == psa_validate_key_id(key, vendor_ok, volatile_ok)
         IN  /\ status = IF key_id \in Accepted(vendor_ok, volatile_ok)
                         THEN PSA_SUCCESS
                         ELSE PSA_ERROR_INVALID_HANDLE
             /\ (key_id = 0 \/ key_id > PSA_KEY_ID_VOLATILE_MAX)
                    => status = PSA_ERROR_INVALID_HANDLE
             /\ (key_id \in VolatileRange /\ ~ volatile_ok)
                    => status = PSA_ERROR_INVALID_HANDLE
    /\ last.op = "validate_key_id"
         => last.status =
                IF MBEDTLS_SVC_KEY_ID_GET_KEY_ID(last.handle)
                       \in Accepted(last.vendor_ok, last.volatile_ok)
                THEN PSA_SUCCESS
                ELSE PSA_ERROR_INVALID_HANDLE

\* An identifier of the volatile range has just been refused with vendor_ok
\* set and volatile_ok clear.
C16_Witness ==
    /\ last.op = "validate_key_id"
    /\ MBEDTLS_SVC_KEY_ID_GET_KEY_ID(last.handle) \in VolatileRange
    /\ last.vendor_ok
    /\ ~ last.volatile_ok
    /\ last.status = PSA_ERROR_INVALID_HANDLE

\* The slots of each category, by occupancy and lifetime, and the largest key
\* id among some slots (0 when there is none).
EmptySlots(slots) == { i \in SlotIndices : slots[i].id = MBEDTLS_SVC_KEY_ID_INIT }
VolatileSlots(slots) ==
    { i \in SlotIndices \ EmptySlots(slots) :
        slots[i].lifetime = PSA_KEY_LIFETIME_VOLATILE }
ExternalSlots(slots) ==
    { i \in SlotIndices \ EmptySlots(slots) :
        psa_key_lifetime_is_external(slots[i].lifetime) }
PersistentSlots(slots) ==
    SlotIndices \ (EmptySlots(slots) \cup VolatileSlots(slots)
                       \cup ExternalSlots(slots))
MaxKeyId(slots, among) ==
    IF among = {} THEN 0
    ELSE CHOOSE m \in { slots[i].id.key_id : i \in among } :
             \A i \in among : slots[i].id.key_id <= m

\* C17: for every table, mbedtls_psa_get_stats counts each slot in exactly one
\* of the categories empty, volatile, persistent and external, by occupancy
\* and lifetime; the four counts sum to PSA_KEY_SLOT_COUNT; the maximum
\* persistent identifier is the largest key id among the persistent slots and
\* the maximum external identifier the largest among the external slots, 0
\* for a category without slots.  The statistics just reported are those of
\* the table as it is: the pass wrote nothing.
C17_StatsPartitionTheTable ==
    LET stats == mbedtls_psa_get_stats(key_slots) IN
    /\ stats.empty_slots = Cardinality(EmptySlots(key_slots))
    /\ stats.volatile_slots = Cardinality(VolatileSlots(key_slots))
    /\ stats.persistent_slots = Cardinality(PersistentSlots(key_slots))
    /\ stats.external_slots = Cardinality(ExternalSlots(key_slots))
    /\ stats.empty_slots + stats.volatile_slots + stats.persistent_slots
           + stats.external_slots = PSA_KEY_SLOT_COUNT
    /\ stats.max_open_internal_key_id
           = MaxKeyId(key_slots, PersistentSlots(key_slots))
    /\ stats.max_open_external_key_id
           = MaxKeyId(key_slots, ExternalSlots(key_slots))
    /\ last.op = "get_stats" => last.stats = stats

\* Statistics have just been taken of a table with two persistent keys, the
\* one with the larger identifier in the slot the pass reads first.
C17_Witness ==
    /\ last.op = "get_stats"
    /\ last.stats.persistent_slots >= 2
    /\ key_slots[0].lifetime = PSA_KEY_LIFETIME_PERSISTENT
    /\ last.stats.max_open_internal_key_id = key_slots[0].id.key_id
    /\ last.stats.empty_slots + last.stats.volatile_slots
           + last.stats.persistent_slots + last.stats.external_slots
           = PSA_KEY_SLOT_COUNT

\* How many of the calls are calls of name.
Count(calls, name) == Cardinality({ i \in 1 .. Len(calls) : calls[i] = name })

\* The loader's run for key: on the slot psa_get_key_slot prepares for it.
LoaderRun(key) ==
    psa_load_persistent_key_into_slot(
        [ ZeroSlot EXCEPT !.lifetime = PSA_KEY_LIFETIME_PERSISTENT, !.id = key ],
        storage)

\* One request to the backend, first; one release of the buffer, last.
ReleasedOnce(calls) ==
    /\ Count(calls, "load") = 1
    /\ Count(calls, "free") = 1
    /\ calls[1] = "load"
    /\ calls[Len(calls)] = "free"

LoadReleased(calls) ==
    /\ Count(calls, "free") = Count(calls, "load")
    /\ Count(calls, "load") <= 1
    /\ \A i, j \in 1 .. Len(calls) :
         (calls[i] = "free" /\ calls[j] \in {"load", "copy"}) => j < i

\* C18: for every key and every content of the backend, a run of the loader
\* asks the backend once and releases the buffer exactly once, as its last
\* step, on each of its exits: the backend's read failure, the size mismatch
\* of a secure-element record, the copier's failure, and success.  Every
\* psa_get_key_slot and psa_open_key that asked the backend has released the
\* buffer when it returns, those already made included.
C18_LoaderReleasesTheBuffer ==
    /\ \A key \in Keys :
         /\ ReleasedOnce(LoaderRun(key).calls)
         /\ LoadReleased(GetKeySlotCall(key).calls)
         /\ LoadReleased(OpenKeyCall(key).calls)
    /\ (last.op \in {"get_key_slot", "open_key"}) => LoadReleased(last.calls)

\* psa_get_key_slot has just returned the copier's error: it asked the
\* backend, the copy failed, the buffer was released, the slot wiped.
C18_Witness ==
    /\ last.op = "get_key_slot"
    /\ last.status = PSA_ERROR_INVALID_ARGUMENT
    /\ last.calls = <<"search", "get_empty", "load", "copy", "free", "wipe">>

\* C19: a handle is the key's identifier and nothing more.  Whether a handle
\* of the volatile range resolves depends on the table as it is alone: when
\* the slot of its index holds an identifier equal to it, the search,
\* psa_close_key and psa_purge_key succeed.  After a volatile key was closed
\* with every slot above its own occupied, the allocator hands out the same
\* slot and the same key id; and once the caller has stored a key under the
\* closed handle's identifier in that slot, the closed handle resolves to the
\* new key: search, close and purge return PSA_SUCCESS, not
\* PSA_ERROR_DOES_NOT_EXIST or PSA_ERROR_INVALID_HANDLE.
C19_ClosedHandleResolvesAfterReuse ==
    /\ \A h \in Keys :
         LET idx == MBEDTLS_SVC_KEY_ID_GET_KEY_ID(h) - PSA_KEY_ID_VOLATILE_MIN IN
         ( /\ psa_key_id_is_volatile(MBEDTLS_SVC_KEY_ID_GET_KEY_ID(h))
           /\ key_slots[idx].id = h )
         => /\ psa_search_key_in_slots(key_slots, h)
                  = [status |-> PSA_SUCCESS, p_slot |-> idx]
            /\ CloseKeyCall(h).status = PSA_SUCCESS
            /\ PurgeKeyCall(h).status = PSA_SUCCESS
    /\ ( /\ last.op = "close_key"
         /\ last.status = PSA_SUCCESS
         /\ last.p_slot # NULL
         /\ psa_key_id_is_volatile(MBEDTLS_SVC_KEY_ID_GET_KEY_ID(last.handle))
         /\ key_slots_initialized
         /\ \A i \in SlotIndices : i > last.p_slot => i \in Occupied(key_slots) )
       => /\ GetEmptyKeySlotCall.status = PSA_SUCCESS
          /\ GetEmptyKeySlotCall.p_slot = last.p_slot
          /\ GetEmptyKeySlotCall.volatile_key_id
                 = MBEDTLS_SVC_KEY_ID_GET_KEY_ID(last.handle)
    /\ ( /\ last.op = "get_empty_slot"
         /\ last.handle # PSA_KEY_HANDLE_INIT
         /\ last.stored
         /\ key_slots[last.p_slot].id = last.handle )
       => /\ psa_search_key_in_slots(key_slots, last.handle)
                = [status |-> PSA_SUCCESS, p_slot |-> last.p_slot]
          /\ CloseKeyCall(last.handle).status = PSA_SUCCESS
          /\ PurgeKeyCall(last.handle).status = PSA_SUCCESS

\* A volatile key was closed, the allocator handed out its identifier again,
\* the caller stored a new key under it in the same slot, and the closed
\* handle resolves to that key.
C19_Witness ==
    /\ last.op = "get_empty_slot"
    /\ last.handle # PSA_KEY_HANDLE_INIT
    /\ last.stored
    /\ key_slots[last.p_slot].id = last.handle
    /\ key_slots[last.p_slot].lifetime = PSA_KEY_LIFETIME_VOLATILE
    /\ psa_search_key_in_slots(key_slots, last.handle).status = PSA_SUCCESS
    /\ CloseKeyCall(last.handle).status = PSA_SUCCESS
    /\ PurgeKeyCall(last.handle).status = PSA_SUCCESS

\* The backend holds a secure-element key under key.
StoredExternal(key) ==
    /\ storage[key].kind = "record"
    /\ psa_key_lifetime_is_external(storage[key].lifetime)

\* C20: for every key under which the backend holds a record with an external
\* (secure element) lifetime, the loader never calls the key-material copier.
\* When the record's payload has not exactly the size of the reference record
\* the loader fails PSA_ERROR_STORAGE_FAILURE and the slot has neither
\* material nor a slot number; psa_get_key_slot then returns that error and
\* the table is as before.  When the size matches the loader succeeds and the
\* slot has the slot number of the record and no key material.
C20_ExternalRecordSize ==
    \A key \in Keys :
        StoredExternal(key)
        => LET l == LoaderRun(key) IN
           /\ ~ \E i \in 1 .. Len(l.calls) : l.calls[i] = "copy"
           /\ l.slot.id = key
           /\ l.slot.lifetime = storage[key].lifetime
           /\ l.slot.key = 0
           /\ IF storage[key].length # SE_KEY_DATA_STORAGE_SIZE
              THEN /\ l.status = PSA_ERROR_STORAGE_FAILURE
                   /\ l.slot.se_slot_number = 0
                   /\ MissesAndAllocates(key)
                        => /\ GetKeySlotCall(key).status = PSA_ERROR_STORAGE_FAILURE
                           /\ GetKeySlotCall(key).key_slots = key_slots
              ELSE /\ l.status = PSA_SUCCESS
                   /\ l.slot.se_slot_number = storage[key].data
                   /\ MissesAndAllocates(key)
                        => /\ GetKeySlotCall(key).status = PSA_SUCCESS
                           /\ GetKeySlotCall(key).calls
                                  = <<"search", "get_empty", "load", "free">>

\* psa_get_key_slot has just failed on the size of a secure-element record:
\* the backend read it (nothing it holds is unreadable), the copier was not
\* called, the slot was wiped.
C20_Witness ==
    /\ last.op = "get_key_slot"
    /\ last.status = PSA_ERROR_STORAGE_FAILURE
    /\ last.calls = <<"search", "get_empty", "load", "free", "wipe">>
    /\ \A key \in Keys : storage[key].kind # "unreadable"
    /\ \E key \in StoredKeys :
         /\ StoredExternal(key)
         /\ storage[key].length # SE_KEY_DATA_STORAGE_SIZE

\* C21: on an initialized table whose slots are all occupied, in the build
\* with persistent storage, psa_get_key_slot(key) for a valid identifier
\* outside the volatile range that is not resident returns
\* PSA_ERROR_INSUFFICIENT_MEMORY, not PSA_ERROR_DOES_NOT_EXIST; it calls the
\* search and the allocator and nothing else, so the backend is not read,
\* whether it holds the key or not; and every slot is as before.
C21_FullTableRefusesTheLoad ==
    ( /\ key_slots_initialized
      /\ storage_c
      /\ \A i \in SlotIndices : psa_is_key_slot_occupied(key_slots[i]) )
    => \A key \in Keys :
         ( /\ psa_validate_key_id(key, TRUE, TRUE) = PSA_SUCCESS
           /\ ~ psa_key_id_is_volatile(MBEDTLS_SVC_KEY_ID_GET_KEY_ID(key))
           /\ ~ Resident(key) )
         => LET r == GetKeySlotCall(key) IN
            /\ r.status = PSA_ERROR_INSUFFICIENT_MEMORY
            /\ r.calls = <<"search", "get_empty">>
            /\ r.p_slot = NULL
            /\ r.key_slots = key_slots

\* psa_get_key_slot has just been refused by the allocator on a full table,
\* while the backend holds a well-formed key that is not resident.
C21_Witness ==
    /\ last.op = "get_key_slot"
    /\ last.status = PSA_ERROR_INSUFFICIENT_MEMORY
    /\ last.calls = <<"search", "get_empty">>
    /\ Occupied(key_slots) = SlotIndices
    /\ \E key \in StoredKeys :
         /\ ~ psa_key_id_is_volatile(MBEDTLS_SVC_KEY_ID_GET_KEY_ID(key))
         /\ storage[key].kind = "record"
         /\ storage[key].length = SE_KEY_DATA_STORAGE_SIZE
         /\ ~ Resident(key)

\* C22: only psa_get_key_slot and psa_get_empty_key_slot test the initialized
\* flag, and they test it before anything else: on an uninitialized table
\* psa_get_key_slot returns PSA_ERROR_BAD_STATE for every identifier, the
\* out-of-range ones included.  psa_close_key and psa_purge_key never return
\* PSA_ERROR_BAD_STATE; on an uninitialized table they return
\* PSA_ERROR_INVALID_HANDLE for an out-of-range identifier that is not null
\* and PSA_ERROR_DOES_NOT_EXIST for a valid one, and the table is as before.
C22_OnlyTheLookupTestsInitialized ==
    /\ last.op \in {"close_key", "purge_key"}
         => last.status # PSA_ERROR_BAD_STATE
    /\ \A key \in Keys :
         LET valid == psa_validate_key_id(key, TRUE, TRUE) = PSA_SUCCESS
             c == CloseKeyCall(key)
             p == PurgeKeyCall(key)
         IN  /\ c.status # PSA_ERROR_BAD_STATE
             /\ p.status # PSA_ERROR_BAD_STATE
             /\ ~ key_slots_initialized =>
                  /\ GetKeySlotCall(key).status = PSA_ERROR_BAD_STATE
                  /\ GetEmptyKeySlotCall.status = PSA_ERROR_BAD_STATE
                  /\ c.key_slots = key_slots
                  /\ p.key_slots = key_slots
                  /\ valid =>
                       /\ c.status = PSA_ERROR_DOES_NOT_EXIST
                       /\ p.status = PSA_ERROR_DOES_NOT_EXIST
                  /\ (~ valid /\ ~ psa_key_handle_is_null(key)) =>
                       /\ c.status = PSA_ERROR_INVALID_HANDLE
                       /\ p.status = PSA_ERROR_INVALID_HANDLE

\* psa_close_key has just refused an out-of-range identifier on a table that
\* is not initialized, where psa_get_key_slot answers PSA_ERROR_BAD_STATE for
\* an identifier above the volatile range.
C22_Witness ==
    /\ ~ key_slots_initialized
    /\ last.op = "close_key"
    /\ last.status = PSA_ERROR_INVALID_HANDLE
    /\ GetKeySlotCall(mbedtls_svc_key_id_make(0, PSA_KEY_ID_VOLATILE_MAX + 1)).status
         = PSA_ERROR_BAD_STATE

\* C23: when several slots are unoccupied, psa_get_empty_key_slot returns the
\* unoccupied slot of highest index, so the volatile identifier it hands out
\* is the largest one whose slot is free, and a persistent key that
\* psa_get_key_slot loads lands in the unoccupied slot of highest index,
\* the other slots being as before.
C23_AllocatorTakesTheHighestFreeSlot ==
    (key_slots_initialized /\ Unoccupied(key_slots) # {})
    => LET top == CHOOSE i \in Unoccupied(key_slots) :
                      \A j \in Unoccupied(key_slots) : j <= i
           e == GetEmptyKeySlotCall
       IN  /\ e.status = PSA_SUCCESS
           /\ e.p_slot = top
           /\ e.volatile_key_id = PSA_KEY_ID_VOLATILE_MIN + top
           /\ \A j \in Unoccupied(key_slots) :
                PSA_KEY_ID_VOLATILE_MIN + j <= e.volatile_key_id
           /\ \A key \in Keys :
                (MissesAndAllocates(key) /\ LoaderStatus(key) = PSA_SUCCESS)
                => LET r == GetKeySlotCall(key) IN
                   /\ r.status = PSA_SUCCESS
                   /\ r.p_slot = top
                   /\ r.key_slots[top].id = key
                   /\ \A j \in SlotIndices \ {top} :
                        r.key_slots[j] = key_slots[j]

\* psa_get_key_slot has just loaded a key from the backend into the slot of
\* highest index while a slot of lower index was unoccupied as well, and
\* still is.
C23_Witness ==
    /\ last.op = "get_key_slot"
    /\ last.status = PSA_SUCCESS
    /\ Called(last, "load")
    /\ Unoccupied(key_slots) # {}
    /\ \A j \in Unoccupied(key_slots) : j < last.p_slot
    /\ \A j \in SlotIndices : j > last.p_slot => psa_is_key_slot_occupied(key_slots[j])

====
